---------------------------- MODULE Spec2Model ----------------------------
(***************************************************************************)
(* The clippings parser of src/kindle.py (class KindleClippings) and the   *)
(* caller that consumes it (KindlePageViewExtension.import_kindle_         *)
(* clippings).                                                             *)
(*                                                                         *)
(* A Python str is a sequence of one-character strings, so that split,     *)
(* strip, join and the regular expressions are computed character by       *)
(* character.  An optional value is <<>> (None) or <<v>>.  The "date"      *)
(* field of an entry (datetime parsing with a fall back to now()) and the  *)
(* "updated" stamp are left out: no property checked here reads them.      *)
(***************************************************************************)
EXTENDS Integers, Sequences, FiniteSets, TLC

(***************************************************************************)
(* Characters and strings                                                  *)
(***************************************************************************)
UpperLetters ==
    <<"A","B","C","D","E","F","G","H","I","J","K","L","M",
      "N","O","P","Q","R","S","T","U","V","W","X","Y","Z">>

LowerLetters ==
    <<"a","b","c","d","e","f","g","h","i","j","k","l","m",
      "n","o","p","q","r","s","t","u","v","w","x","y","z">>

Digits == {"0","1","2","3","4","5","6","7","8","9"}

Range(s) == {s[i] : i \in DOMAIN s}

\* the characters str.strip() removes
Whitespace == {" ", "\t", "\n", "\r", "\f"}

\* the characters \w matches
WordChars == Range(UpperLetters) \cup Range(LowerLetters) \cup Digits \cup {"_"}

None == <<>>

Some(v) == <<v>>

\* str.lower() on one character
LowerChar(c) ==
    IF c \in Range(UpperLetters)
    THEN LowerLetters[CHOOSE i \in DOMAIN UpperLetters : UpperLetters[i] = c]
    ELSE c

Lower(s) == [i \in DOMAIN s |-> LowerChar(s[i])]

SetMin(S) == CHOOSE x \in S : \A y \in S : x <= y

\* does the non-empty p occur in s at position i
MatchAt(s, p, i) ==
    /\ i >= 1
    /\ i + Len(p) - 1 <= Len(s)
    /\ s[i] = p[1]
    /\ \A j \in 2..Len(p) : s[i + j - 1] = p[j]

\* the leftmost position of p in s at or after i, 0 when there is none
RECURSIVE FindFrom(_, _, _)
FindFrom(s, p, i) ==
    IF i + Len(p) - 1 > Len(s) THEN 0
    ELSE IF MatchAt(s, p, i) THEN i
    ELSE FindFrom(s, p, i + 1)

\* str.find
Find(s, p) == FindFrom(s, p, 1)

\* str.split(sep): the pieces between the non-overlapping occurrences of
\* sep, scanned from the left; always at least one piece
RECURSIVE Split(_, _)
Split(s, sep) ==
    LET i == Find(s, sep)
    IN IF i = 0
       THEN <<s>>
       ELSE <<SubSeq(s, 1, i - 1)>> \o Split(SubSeq(s, i + Len(sep), Len(s)), sep)

\* the first position at or after i of a character that is not whitespace
RECURSIVE SkipLeft(_, _)
SkipLeft(s, i) ==
    IF i <= Len(s) /\ s[i] \in Whitespace THEN SkipLeft(s, i + 1) ELSE i

\* the last position at or before i of a character that is not whitespace
RECURSIVE SkipRight(_, _)
SkipRight(s, i) ==
    IF i >= 1 /\ s[i] \in Whitespace THEN SkipRight(s, i - 1) ELSE i

\* str.strip()
Strip(s) == SubSeq(s, SkipLeft(s, 1), SkipRight(s, Len(s)))

\* sep.join(parts)
RECURSIVE Join(_, _)
Join(parts, sep) ==
    IF parts = <<>> THEN <<>>
    ELSE IF Len(parts) = 1 THEN parts[1]
    ELSE parts[1] \o sep \o Join(Tail(parts), sep)

\* str.replace(old, new) for a one-character old
RECURSIVE ReplaceChar(_, _, _)
ReplaceChar(s, old, new) ==
    IF s = <<>> THEN <<>>
    ELSE (IF Head(s) = old THEN new ELSE <<Head(s)>>) \o ReplaceChar(Tail(s), old, new)

\* the longest run of characters of S that starts at position i of s
RECURSIVE Run(_, _, _)
Run(s, i, S) ==
    IF i <= Len(s) /\ s[i] \in S THEN <<s[i]>> \o Run(s, i + 1, S) ELSE <<>>

(***************************************************************************)
(* KindleClippings._sanitize_book_title                                    *)
(***************************************************************************)
EmphasisTags == {<<"<","i",">">>, <<"<","/","i",">">>, <<"<","b",">">>, <<"<","/","b",">">>}

\* re.sub(r"<i>|</i>|<b>|</b>", "", s): one pass from the left; a tag that
\* matches is dropped and the scan resumes after it
RECURSIVE RemoveTags(_)
RemoveTags(s) ==
    IF s = <<>> THEN <<>>
    ELSE LET hit == {t \in EmphasisTags : MatchAt(s, t, 1)}
         IN IF hit # {}
            THEN LET t == CHOOSE t \in hit : TRUE
                 IN RemoveTags(SubSeq(s, Len(t) + 1, Len(s)))
            ELSE <<Head(s)>> \o RemoveTags(Tail(s))

_sanitize_book_title(title) ==
    RemoveTags(ReplaceChar(title, ":", <<" ", "-">>))

(***************************************************************************)
(* KindleClippings._parse_title_author                                     *)
(***************************************************************************)
\* the positions where "$" matches: the end, and before a final newline
DollarEnds(line) ==
    {Len(line)} \cup (IF line # <<>> /\ line[Len(line)] = "\n" THEN {Len(line) - 1} ELSE {})

\* the longest run of characters outside S that starts at position i of s
RECURSIVE RunOutside(_, _, _)
RunOutside(s, i, S) ==
    IF i <= Len(s) /\ s[i] \notin S THEN <<s[i]>> \o RunOutside(s, i + 1, S) ELSE <<>>

\* ParenMatchAt with the "$" forgotten: any parenthetical matches
ParenMatchAtNoDollar(line, i) ==
    IF line[i] # "(" THEN 0
    ELSE LET inner == RunOutside(line, i + 1, {"(", ")"})
             close == i + 1 + Len(inner)
         IN IF inner # <<>> /\ close <= Len(line) /\ line[close] = ")"
            THEN close
            ELSE 0

\* r"\(([^()]+)\)$" tried at position i: "(", then the longest run of
\* non-parenthesis characters (a shorter run is followed by a character of
\* the run, never by ")"), then ")" where "$" matches; the position of that
\* ")", or 0
ParenMatchAt(line, i) ==
    IF line[i] # "(" THEN 0
    ELSE LET inner == RunOutside(line, i + 1, {"(", ")"})
             close == i + 1 + Len(inner)
         IN IF /\ inner # <<>>
               /\ close <= Len(line)
               /\ line[close] = ")"
               /\ close \in DollarEnds(line)
            THEN close
            ELSE 0

\* re.search(r"\(([^()]+)\)$", line): the pattern is tried at every
\* position from the left and the first match wins; <<start, end>> of the
\* match, or <<>> for None
RECURSIVE SearchParen(_, _)
SearchParen(line, i) ==
    IF i > Len(line) THEN <<>>
    ELSE IF ParenMatchAt(line, i) # 0 THEN <<i, ParenMatchAt(line, i)>>
    ELSE SearchParen(line, i + 1)

last_paren_match(line) == SearchParen(line, 1)

_parse_title_author(line) ==
    LET m == last_paren_match(line)
    IN IF m # <<>>
       THEN [title  |-> Strip(SubSeq(line, 1, m[1] - 1)),
             author |-> Some(Strip(SubSeq(line, m[1] + 1, m[2] - 1)))]
       ELSE [title |-> line, author |-> None]

(***************************************************************************)
(* KindleClippings._parse_metadata                                         *)
(***************************************************************************)
\* the characters of a Python literal, one per element
YourMarker == <<"-", " ", "Y", "o", "u", "r", " ">>

PageMarker == <<"o", "n", " ", "p", "a", "g", "e", " ">>

LocationMarker == <<"L", "o", "c", "a", "t", "i", "o", "n", " ">>

Unknown == <<"u", "n", "k", "n", "o", "w", "n">>

\* re.search(marker + r"(\w+)") / (marker + r"(\d+...)"): the leftmost
\* position where marker is followed by a character of S, 0 when none
SearchMarker(line, marker, S) ==
    LET hits == {i \in 1..Len(line) :
                    /\ MatchAt(line, marker, i)
                    /\ i + Len(marker) <= Len(line)
                    /\ line[i + Len(marker)] \in S}
    IN IF hits = {} THEN 0 ELSE SetMin(hits)

\* entry_type with the .lower() forgotten
entry_type_verbatim(line) ==
    LET i == SearchMarker(line, YourMarker, WordChars)
    IN IF i = 0
       THEN Unknown
       ELSE Run(line, i + Len(YourMarker), WordChars)

\* re.search(r"- Your (?P<type>\w+)", line), lower-cased, else "unknown"
entry_type(line) ==
    LET i == SearchMarker(line, YourMarker, WordChars)
    IN IF i = 0
       THEN Unknown
       ELSE Lower(Run(line, i + Len(YourMarker), WordChars))

\* the group (\d+(-\d+)?) matched at position i of line
NumberRange(line, i) ==
    LET first == Run(line, i, Digits)
        j     == i + Len(first)
    IN IF j + 1 <= Len(line) /\ line[j] = "-" /\ line[j + 1] \in Digits
       THEN first \o <<"-">> \o Run(line, j + 1, Digits)
       ELSE first

\* re.search(marker + r"(?P<n>\d+(-\d+)?)", line): the group, or None
NumberAfter(line, marker) ==
    LET i == SearchMarker(line, marker, Digits)
    IN IF i = 0 THEN None ELSE Some(NumberRange(line, i + Len(marker)))

\* the dict returned on line 307, without its "date"
_parse_metadata(line) ==
    [type     |-> entry_type(line),
     page     |-> NumberAfter(line, PageMarker),
     location |-> NumberAfter(line, LocationMarker)]

\* the truth value of a dict: it is false only when the dict is empty
Truthy(d) == DOMAIN d # {}

(***************************************************************************)
(* KindleClippings.parse_entries                                           *)
(***************************************************************************)
\* [l.strip() for l in entry.split("\n") if l.strip()]
Lines(entry) ==
    LET raw == Split(entry, <<"\n">>)
    IN SelectSeq([i \in DOMAIN raw |-> Strip(raw[i])], LAMBDA l : l # <<>>)

\* TooShort with the threshold one too low
TooShortTwo(lines) == Len(lines) < 2

\* len(lines) < 3
TooShort(lines) == Len(lines) < 3

\* the position of key in the dict books, 0 when it is not a key
KeyIndex(bks, key) ==
    LET hits == {i \in DOMAIN bks : bks[i].key = key}
    IN IF hits = {} THEN 0 ELSE SetMin(hits)

\* self.books[title] = {...} for a new key: the dict keeps insertion order
NewBook(bks, title, author) ==
    Append(bks, [key |-> title, title |-> title, author |-> author, entries |-> <<>>])

\* EnsureBook when a later record overwrites the author of its book
EnsureBookLastAuthor(bks, title, author) ==
    IF KeyIndex(bks, title) = 0
    THEN NewBook(bks, title, author)
    ELSE [bks EXCEPT ![KeyIndex(bks, title)].author = author]

\* if title not in self.books: self.books[title] = {...}
EnsureBook(bks, title, author) ==
    IF KeyIndex(bks, title) = 0 THEN NewBook(bks, title, author) ELSE bks

\* AppendEntry when the entry is put in front
PrependEntry(bks, title, e) ==
    LET k == KeyIndex(bks, title)
    IN [bks EXCEPT ![k].entries = <<e>> \o @]

\* self.books[title]["entries"].append(e)
AppendEntry(bks, title, e) ==
    LET k == KeyIndex(bks, title)
    IN [bks EXCEPT ![k].entries = Append(@, e)]

\* the text of an entry: "\n".join(lines[2:]) if len(lines) > 2 else ""
EntryText(lines) ==
    IF Len(lines) > 2 THEN Join(SubSeq(lines, 3, Len(lines)), <<"\n">>) ELSE <<>>

\* one iteration of the loop of parse_entries over one raw entry
parse_entry(bks, entry) ==
    IF Strip(entry) = <<>> THEN bks
    ELSE LET lines == Lines(entry)
         IN IF TooShort(lines) THEN bks
            ELSE LET meta == _parse_metadata(lines[2])
                 IN IF ~Truthy(meta) THEN bks
                    ELSE LET book_info == _parse_title_author(lines[1])
                             text      == EntryText(lines)
                             title     == _sanitize_book_title(book_info.title)
                         IN AppendEntry(EnsureBook(bks, title, book_info.author),
                                        title,
                                        [type     |-> meta.type,
                                         page     |-> meta.page,
                                         location |-> meta.location,
                                         text     |-> text])

\* the whole loop, from the dict bks
RECURSIVE parse_entries(_, _)
parse_entries(bks, raw) ==
    IF raw = <<>> THEN bks ELSE parse_entries(parse_entry(bks, Head(raw)), Tail(raw))

\* sum(len(book["entries"]) for book in self.books.values())
RECURSIVE SumEntries(_)
SumEntries(bks) ==
    IF bks = <<>> THEN 0 ELSE Len(Head(bks).entries) + SumEntries(Tail(bks))

\* Delimiter with one equals sign too few
DelimiterNine == <<"=", "=", "=", "=", "=", "=", "=", "=", "=", "\n">>

\* the delimiter of f.read().split("==========\n")
Delimiter == <<"=", "=", "=", "=", "=", "=", "=", "=", "=", "=", "\n">>

(***************************************************************************)
(* The inputs: the text of the clippings file is at most MaxRecords        *)
(* records, each a record of an export, with the delimiter line between    *)
(* them and, as in a real export, after the last one, or not               *)
(***************************************************************************)
MaxRecords == 3

\* the delimiter line of an export: ten equals signs and a newline
TenEqualsLine == <<"=", "=", "=", "=", "=", "=", "=", "=", "=", "=", "\n">>

\* header "<i>A</i>" (no author), a highlight with a page
RecItalicA ==
    <<"<", "i", ">", "A", "<", "/", "i", ">", "\n", "-", " ", "Y", "o",
      "u", "r", " ", "H", "i", "g", "h", "l", "i", "g", "h", "t", " ", "o",
      "n", " ", "p", "a", "g", "e", " ", "3", "\n", "t", "\n">>

\* header "A (X)", a kind in upper case, a location range, a body of two
\* lines around a blank one
RecAuthorA ==
    <<"A", " ", "(", "X", ")", "\n", "-", " ", "Y", "o", "u", "r", " ",
      "N", "O", "T", "E", " ", "|", " ", "L", "o", "c", "a", "t", "i", "o",
      "n", " ", "1", "-", "2", "\n", " ", "u", " ", "\n", "\n", "v", "\n">>

\* header "B", a kind that is none of highlight, note, bookmark
RecClipB ==
    <<"B", "\n", "-", " ", "Y", "o", "u", "r", " ", "C", "l", "i", "p",
      "\n", "t", "\n">>

\* header "B: c (Y)", three lines, the second one without "- Your"
RecNoMarkerB ==
    <<"B", ":", " ", "c", " ", "(", "Y", ")", "\n", "j", "u", "n", "k",
      "\n", "t", "\n">>

\* header "B" and a metadata line, no body: a bookmark
RecBookmarkB ==
    <<"B", "\n", "-", " ", "Y", "o", "u", "r", " ", "B", "o", "o", "k",
      "m", "a", "r", "k", "\n">>

\* a note whose body holds a line of nine equals signs, one short of the
\* delimiter, and three more lines
RecNineEquals ==
    <<"C", "\n", "-", " ", "Y", "o", "u", "r", " ", "N", "o", "t", "e",
      "\n", "t", "\n", "=", "=", "=", "=", "=", "=", "=", "=", "=", "\n",
      "u", "\n", "v", "\n", "w", "\n">>

\* one line only
RecOneLine ==
    <<"x", "\n">>

Records ==
    <<RecItalicA, RecAuthorA, RecClipB, RecNoMarkerB, RecBookmarkB,
      RecNineEquals, RecOneLine>>

Texts ==
    {Join([i \in DOMAIN rs |-> Records[rs[i]]], TenEqualsLine) \o last :
        rs \in UNION {[1..n -> DOMAIN Records] : n \in 0..MaxRecords},
        last \in {<<>>, TenEqualsLine}}

\* what open(...).read() finds at clippings_path: a text, or an exception
\* (no such file, no permission, bytes that are not UTF-8)
Files ==
    [readable : {TRUE}, text : Texts] \cup {[readable |-> FALSE, text |-> <<>>]}

\* the header lines of the records: parse_entries strips every line and
\* drops the empty ones, so a header is trimmed and not empty
MaxHeaderLen == 5

MaxTagLen == 6

ParenAlphabet == {"(", ")", " ", "a"}

TagAlphabet == {":", "<", ">", "/", "i", "b"}

Strings(A, n) == UNION {[1..k -> A] : k \in 1..n}

HeaderLines ==
    {l \in Strings(ParenAlphabet, MaxHeaderLen) \cup Strings(TagAlphabet, MaxTagLen) :
        Strip(l) = l}

(***************************************************************************)
(* State                                                                   *)
(***************************************************************************)
VARIABLES
    pc,             \* where the import, or the header parse, stands
    clipfile,       \* the "clipfile" notebook property: TRUE when a path is set
    file,           \* what is found at that path
    raw_entries,    \* the list parse_entries iterates over
    idx,            \* the position of the loop in raw_entries
    books,          \* KindleClippings.books, in insertion order
    total_entries,  \* KindleClippings.total_entries
    errors,         \* the messages given to logger.error
    imported,       \* did import_kindle_clippings reach update_root/import_entries
    line,           \* the header line given to _parse_title_author
    book_info,      \* its result
    sane_title      \* the result of _sanitize_book_title on book_info's title

vars ==
    <<pc, clipfile, file, raw_entries, idx, books, total_entries, errors,
      imported, line, book_info, sane_title>>

importVars == <<clipfile, file, raw_entries, idx, books, total_entries, errors, imported>>

headerVars == <<line, book_info, sane_title>>

NoImport ==
    /\ clipfile = FALSE
    /\ file = [readable |-> FALSE, text |-> <<>>]
    /\ raw_entries = <<>>
    /\ idx = 1
    /\ books = <<>>
    /\ total_entries = 0
    /\ errors = <<>>
    /\ imported = FALSE

NoHeader ==
    /\ line = <<>>
    /\ book_info = [title |-> <<>>, author |-> None]
    /\ sane_title = <<>>

(***************************************************************************)
(* import_kindle_clippings and KindleClippings.__init__                    *)
(***************************************************************************)
Init ==
    /\ pc = "idle"
    /\ \/ clipfile = FALSE /\ file = [readable |-> FALSE, text |-> <<>>]
       \/ clipfile = TRUE /\ file \in Files
    /\ raw_entries = <<>>
    /\ idx = 1
    /\ books = <<>>
    /\ total_entries = 0
    /\ errors = <<>>
    /\ imported = FALSE
    /\ NoHeader

\* lines 78-80: no clippings file is set, the import returns
ImportNoFile ==
    /\ pc = "idle"
    /\ ~clipfile
    /\ errors' = Append(errors, "No clippings file specified in notebook properties")
    /\ pc' = "done"
    /\ UNCHANGED <<clipfile, file, raw_entries, idx, books, total_entries, imported>>
    /\ UNCHANGED headerVars

\* lines 186-197 and 207-210: open() or read() raises, the handler logs
\* the error and leaves an empty object
ReadFails ==
    /\ pc = "idle"
    /\ clipfile
    /\ ~file.readable
    /\ errors' = Append(errors, "Error reading clippings file")
    /\ books' = <<>>
    /\ total_entries' = 0
    /\ pc' = "constructed"
    /\ UNCHANGED <<clipfile, file, raw_entries, idx, imported>>
    /\ UNCHANGED headerVars

\* lines 186-197: the file is read and split on the delimiter
ReadSplit ==
    /\ pc = "idle"
    /\ clipfile
    /\ file.readable
    /\ raw_entries' = Split(file.text, Delimiter)
    /\ idx' = 1
    /\ books' = <<>>
    /\ total_entries' = 0
    /\ pc' = "parse"
    /\ UNCHANGED <<clipfile, file, errors, imported>>
    /\ UNCHANGED headerVars

\* lines 214-247: one iteration of the loop of parse_entries
ParseEntry ==
    /\ pc = "parse"
    /\ idx <= Len(raw_entries)
    /\ books' = parse_entry(books, raw_entries[idx])
    /\ idx' = idx + 1
    /\ UNCHANGED <<pc, clipfile, file, raw_entries, total_entries, errors, imported>>
    /\ UNCHANGED headerVars

\* lines 200-203: the loop is over, the statistics are computed
Statistics ==
    /\ pc = "parse"
    /\ idx > Len(raw_entries)
    /\ total_entries' = SumEntries(books)
    /\ pc' = "constructed"
    /\ UNCHANGED <<clipfile, file, raw_entries, idx, books, errors, imported>>
    /\ UNCHANGED headerVars

\* lines 83-93: the caller looks at the object it was given
ImportBooks ==
    /\ pc = "constructed"
    /\ IF books = <<>>
       THEN /\ errors' = Append(errors, "No entries found in clippings file")
            /\ imported' = FALSE
       ELSE /\ errors' = errors
            /\ imported' = TRUE
    /\ pc' = "done"
    /\ UNCHANGED <<clipfile, file, raw_entries, idx, books, total_entries>>
    /\ UNCHANGED headerVars

Next ==
    \/ ImportNoFile
    \/ ReadFails
    \/ ReadSplit
    \/ ParseEntry
    \/ Statistics
    \/ ImportBooks

Spec == Init /\ [][Next]_vars

(***************************************************************************)
(* The header functions on their own: a header line is parsed into title   *)
(* and author, and the title is made the key of the book                   *)
(***************************************************************************)
InitHeader ==
    /\ pc = "header"
    /\ line \in HeaderLines
    /\ book_info = [title |-> <<>>, author |-> None]
    /\ sane_title = <<>>
    /\ NoImport

\* line 226
ParseTitleAuthor ==
    /\ pc = "header"
    /\ book_info' = _parse_title_author(line)
    /\ pc' = "titled"
    /\ UNCHANGED <<line, sane_title>>
    /\ UNCHANGED importVars

\* line 230
SanitizeTitle ==
    /\ pc = "titled"
    /\ sane_title' = _sanitize_book_title(book_info.title)
    /\ pc' = "keyed"
    /\ UNCHANGED <<line, book_info>>
    /\ UNCHANGED importVars

NextHeader ==
    \/ ParseTitleAuthor
    \/ SanitizeTitle

SpecHeader == InitHeader /\ [][NextHeader]_vars

(***************************************************************************)
(* Properties                                                              *)
(***************************************************************************)
\* the states of an import whose file could be read, from the split on
Parsing == pc \in {"parse", "constructed", "done"} /\ clipfile /\ file.readable

\* the object is built: the constructor has returned
Constructed == pc \in {"constructed", "done"} /\ clipfile

\* the raw records the loop has been through
Processed == SubSeq(raw_entries, 1, idx - 1)

\* "- Your " followed by a word character occurs in the line
HasYourMarker(l) ==
    \E i \in 1..Len(l) :
        /\ MatchAt(l, <<"-", " ", "Y", "o", "u", "r", " ">>, i)
        /\ i + 7 <= Len(l)
        /\ l[i + 7] \in WordChars

\* the word after the first "- Your " that a word character follows
WordAfterMarker(l) ==
    LET i == SetMin({i \in 1..Len(l) :
                        /\ MatchAt(l, <<"-", " ", "Y", "o", "u", "r", " ">>, i)
                        /\ i + 7 <= Len(l)
                        /\ l[i + 7] \in WordChars})
        n == CHOOSE n \in 1..Len(l) :
                 /\ \A k \in 0..(n - 1) :
                        i + 7 + k <= Len(l) /\ l[i + 7 + k] \in WordChars
                 /\ i + 7 + n > Len(l) \/ l[i + 7 + n] \notin WordChars
    IN SubSeq(l, i + 7, i + 7 + n - 1)

\* the kind the metadata line l stands for
ExpectedKind(l) ==
    IF HasYourMarker(l)
    THEN Lower(WordAfterMarker(l))
    ELSE <<"u", "n", "k", "n", "o", "w", "n">>

\* what a raw record is to the parser: is it one the loop makes an entry of
\* (it has 3 non-empty lines or more) and, if so, its canonical title, its
\* author, its entry and the kind its metadata line stands for
Digest(e) ==
    LET ls == Lines(e)
    IN IF Len(ls) >= 3
       THEN LET info == _parse_title_author(ls[1])
                meta == _parse_metadata(ls[2])
            IN [accepted |-> TRUE,
                title    |-> _sanitize_book_title(info.title),
                author   |-> info.author,
                kind     |-> ExpectedKind(ls[2]),
                entry    |-> [type     |-> meta.type,
                              page     |-> meta.page,
                              location |-> meta.location,
                              text     |-> EntryText(ls)]]
       ELSE [accepted |-> FALSE]

RECURSIVE DigestAll(_)
DigestAll(raw) ==
    IF raw = <<>> THEN <<>> ELSE <<Digest(Head(raw))>> \o DigestAll(Tail(raw))

\* the digests of the records accepted so far, in the order of the input
AcceptedSoFar == SelectSeq(DigestAll(Processed), LAMBDA d : d.accepted)

\* the subsequence of acc with the title key
OfTitle(acc, key) == SelectSeq(acc, LAMBDA d : d.title = key)

\* C1: the entries of every book are exactly the accepted records of its
\* canonical title, in the order of the input, none merged, moved or
\* dropped; and every accepted record has its book
C1_EntriesInFileOrder ==
    Parsing =>
        LET acc == AcceptedSoFar
        IN /\ \A j \in DOMAIN acc : KeyIndex(books, acc[j].title) # 0
           /\ \A b \in DOMAIN books :
                  LET mine == OfTitle(acc, books[b].key)
                  IN books[b].entries = [j \in DOMAIN mine |-> mine[j].entry]

\* three accepted records of one title, the first and the third identical:
\* three entries in that order, the identical ones both kept
C1_Witness ==
    /\ pc = "done"
    /\ file.readable
    /\ Len(AcceptedSoFar) = 3
    /\ \E b \in DOMAIN books :
           /\ Len(books[b].entries) = 3
           /\ books[b].entries[1] = books[b].entries[3]
           /\ books[b].entries[1] # books[b].entries[2]

\* the positions, among the accepted records, of the first record of each
\* canonical title
FirstSeen(acc) ==
    {j \in DOMAIN acc : \A i \in 1..(j - 1) : acc[i].title # acc[j].title}

\* the b-th of the positions of S
Nth(S, b) == CHOOSE j \in S : Cardinality({i \in S : i < j}) = b - 1

\* C2: there is one book per canonical title, the books are in the order
\* in which their titles are first seen, and the title and the author of a
\* book are those of the first accepted record of that title
C2_FirstRecordNamesBook ==
    Parsing =>
        LET acc   == AcceptedSoFar
            first == FirstSeen(acc)
        IN /\ Len(books) = Cardinality(first)
           /\ \A b \in DOMAIN books :
                  /\ books[b].key = acc[Nth(first, b)].title
                  /\ books[b].title = books[b].key
                  /\ books[b].author = acc[Nth(first, b)].author

\* a book whose first record had no author has got a later record with one
C2_Witness ==
    /\ pc = "done"
    /\ file.readable
    /\ \E b \in DOMAIN books :
           /\ books[b].author = None
           /\ Len(books[b].entries) = 2
           /\ \E j \in DOMAIN AcceptedSoFar :
                  /\ AcceptedSoFar[j].title = books[b].key
                  /\ AcceptedSoFar[j].author # None

\* C3: a record with fewer than 3 non-empty lines changes nothing: at every
\* step, and at the end, the books (and then the total) are those obtained
\* from the input without such records
C3_ShortRecordSkipped ==
    Parsing =>
        LET kept     == SelectSeq(Processed, LAMBDA e : Len(Lines(e)) >= 3)
            expected == parse_entries(<<>>, kept)
        IN /\ books = expected
           /\ pc # "parse" => total_entries = SumEntries(expected)

\* a record of one or two lines was skipped and a later record made an entry
C3_Witness ==
    /\ pc = "done"
    /\ total_entries = 1
    /\ \E j, k \in DOMAIN raw_entries :
           /\ j < k
           /\ Len(Lines(raw_entries[j])) \in {1, 2}
           /\ Len(Lines(raw_entries[k])) >= 3

\* C4: a record of at least 3 lines whose metadata line has no "- Your
\* <kind>" marker adds no entry and no book: the books are those obtained
\* from the input without such records
C4_NoMarkerRecordDiscarded ==
    Parsing =>
        books = parse_entries(<<>>,
                    SelectSeq(Processed,
                              LAMBDA e : ~(/\ Len(Lines(e)) >= 3
                                           /\ ~HasYourMarker(Lines(e)[2]))))

ClosedKinds ==
    {<<"h", "i", "g", "h", "l", "i", "g", "h", "t">>, <<"n", "o", "t", "e">>,
     <<"b", "o", "o", "k", "m", "a", "r", "k">>, <<"u", "n", "k", "n", "o", "w", "n">>}

\* C5, as claimed: the kind of every entry is one of highlight, note,
\* bookmark, unknown
C5_KindEnumerated ==
    \A b \in DOMAIN books :
        \A k \in DOMAIN books[b].entries : books[b].entries[k].type \in ClosedKinds

\* C5, amended: the kind of every entry is the word after "- Your " in its
\* metadata line, in lower case whatever the word is, and unknown when
\* the line has no such marker
C5_KindIsLoweredWord ==
    Parsing =>
        LET acc == AcceptedSoFar
        IN \A b \in DOMAIN books :
               LET mine == OfTitle(acc, books[b].key)
               IN /\ [k \in DOMAIN books[b].entries |-> books[b].entries[k].type] =
                         [j \in DOMAIN mine |-> mine[j].kind]
                  /\ \A k \in DOMAIN books[b].entries :
                         /\ books[b].entries[k].type # <<>>
                         /\ Range(books[b].entries[k].type) \cap Range(UpperLetters) = {}

\* an entry of kind "clip", from "- Your Clip", next to one of kind "note",
\* from "- Your NOTE"
C5_Witness ==
    /\ pc = "done"
    /\ \E b, c \in DOMAIN books :
           /\ books[b].entries[1].type = <<"c", "l", "i", "p">>
           /\ books[c].entries[1].type = <<"n", "o", "t", "e">>

\* what the constructor hands to its caller
Returned == [books |-> books, total_entries |-> total_entries]

\* what it hands over for a readable file of text t
ReturnedFor(t) ==
    [books         |-> parse_entries(<<>>, Split(t, Delimiter)),
     total_entries |-> SumEntries(parse_entries(<<>>, Split(t, Delimiter)))]

\* C6: what the caller gets for a file that cannot be read differs from
\* what it gets for any readable file without a valid record
C6_UnreadableDistinguishable ==
    (Constructed /\ ~file.readable) =>
        \A t \in Texts :
            ReturnedFor(t).books = <<>> => Returned # ReturnedFor(t)

\* C7: a processed record of a header line and a metadata line with the
\* marker, and nothing after them, has an entry with the empty text in the
\* book of its title
C7_BodylessRecordHasEmptyText ==
    Parsing =>
        \A j \in DOMAIN Processed :
            (/\ Len(Lines(Processed[j])) = 2
             /\ HasYourMarker(Lines(Processed[j])[2]))
            => \E b \in DOMAIN books :
                   /\ books[b].key =
                          _sanitize_book_title(
                              _parse_title_author(Lines(Processed[j])[1]).title)
                   /\ \E k \in DOMAIN books[b].entries :
                          books[b].entries[k].text = <<>>

\* the number of occurrences of the delimiter in t (two occurrences cannot
\* overlap: the newline is its last character only)
CountDelimiters(t) == Cardinality({i \in 1..Len(t) : MatchAt(t, TenEqualsLine, i)})

\* the candidate records with non-empty content
Candidates == {j \in DOMAIN raw_entries : Strip(raw_entries[j]) # <<>>}

\* C9, as claimed: N delimiters give at most N candidate records and at
\* most N entries
C9_AtMostNEntries ==
    (Constructed /\ file.readable) =>
        /\ Cardinality(Candidates) <= CountDelimiters(file.text)
        /\ total_entries <= CountDelimiters(file.text)

\* C9, amended: N delimiters give at most N + 1 candidate records and at
\* most N + 1 entries
C9_AtMostNPlusOneEntries ==
    (Constructed /\ file.readable) =>
        /\ Cardinality(Candidates) <= CountDelimiters(file.text) + 1
        /\ total_entries <= CountDelimiters(file.text) + 1

\* one delimiter, two entries: the text after the last delimiter is a record
C9_Witness ==
    /\ pc = "done"
    /\ file.readable
    /\ CountDelimiters(file.text) = 1
    /\ total_entries = 2

\* C8: a trimmed header line that ends with "(X)", X not empty and free of
\* parentheses, has the author X trimmed and the title before it trimmed;
\* any other line is the title and has no author
C8_AuthorIsFinalParenthetical ==
    pc \in {"titled", "keyed"} =>
        LET n     == Len(line)
            opens == {i \in 1..n :
                         /\ line[i] = "("
                         /\ line[n] = ")"
                         /\ i + 1 < n
                         /\ \A j \in (i + 1)..(n - 1) : line[j] \notin {"(", ")"}}
        IN IF opens # {}
           THEN \A i \in opens :
                    book_info = [title  |-> Strip(SubSeq(line, 1, i - 1)),
                                 author |-> Some(Strip(SubSeq(line, i + 1, n - 1)))]
           ELSE book_info = [title |-> line, author |-> None]

\* "a (a)" has given the title "a" and the author "a"
C8_Witness ==
    /\ pc = "titled"
    /\ line = <<"a", " ", "(", "a", ")">>
    /\ book_info = [title |-> <<"a">>, author |-> Some(<<"a">>)]

\* C10: the key of a book holds no colon and no emphasis tag, and
\* sanitizing it again changes nothing
C10_KeyHasNoColonNoTag ==
    pc = "keyed" =>
        /\ ":" \notin Range(sane_title)
        /\ \A t \in EmphasisTags : Find(sane_title, t) = 0
        /\ _sanitize_book_title(sane_title) = sane_title

=============================================================================
